---------------------------- MODULE Spec2Model ----------------------------
(***************************************************************************)
(* A model of production.py: the drafting / validate-revise / deployment   *)
(* pipeline of run_engineering_squad together with the text functions it   *)
(* calls (extract_code_from_chat, extract_text_from_chat,                  *)
(* local_quality_check, save_conversation).                                *)
(*                                                                         *)
(* Text is modelled at the character level: a Python str is a sequence of  *)
(* one-character strings.  Two characters cannot be written inside a TLA+  *)
(* string and are spelled by a name that stands for the single character:  *)
(*   "BQ"      the backtick  (U+0060)                                      *)
(*   "EMDASH"  the em dash   (U+2014)                                      *)
(***************************************************************************)
EXTENDS Integers, Sequences, FiniteSets, TLC

(***************************************************************************)
(* String literals of production.py                                        *)
(***************************************************************************)
\* production.py:112  "partitionBy"
PartitionByMarker ==
    << "p", "a", "r", "t", "i", "t", "i", "o", "n", "B", "y" >>

\* production.py:116  "to_date"
ToDateMarker ==
    << "t", "o", "_", "d", "a", "t", "e" >>

\* production.py:120  "StructType"
StructTypeMarker ==
    << "S", "t", "r", "u", "c", "t", "T", "y", "p", "e" >>

\* production.py:120  "StructField"
StructFieldMarker ==
    << "S", "t", "r", "u", "c", "t", "F", "i", "e", "l", "d" >>

\* production.py:114
Rule1Failure ==
    << "[", "R", "U", "L", "E", " ", "1", "]", " ", "F", "A", "I", "L", " ",
       "EMDASH", " ", "'", "p", "a", "r", "t", "i", "t", "i", "o", "n", "B",
       "y", "'", " ", "n", "o", "t", " ", "f", "o", "u", "n", "d", ".", " ",
       "A", "d", "d", " ", ".", "w", "r", "i", "t", "e", ".", "p", "a", "r",
       "t", "i", "t", "i", "o", "n", "B", "y", "(", "'", "e", "v", "e", "n",
       "t", "_", "d", "a", "t", "e", "'", ")" >>

\* production.py:118
Rule2Failure ==
    << "[", "R", "U", "L", "E", " ", "2", "]", " ", "F", "A", "I", "L", " ",
       "EMDASH", " ", "'", "t", "o", "_", "d", "a", "t", "e", "'", " ", "n",
       "o", "t", " ", "f", "o", "u", "n", "d", ".", " ", "D", "e", "r", "i",
       "v", "e", " ", "e", "v", "e", "n", "t", "_", "d", "a", "t", "e", " ",
       "u", "s", "i", "n", "g", " ", "t", "o", "_", "d", "a", "t", "e", "(",
       "c", "o", "l", "(", "'", "e", "v", "e", "n", "t", "_", "t", "i", "m",
       "e", "s", "t", "a", "m", "p", "'", ")", ")" >>

\* production.py:122
Rule3Failure ==
    << "[", "R", "U", "L", "E", " ", "3", "]", " ", "F", "A", "I", "L", " ",
       "EMDASH", " ", "N", "o", " ", "e", "x", "p", "l", "i", "c", "i", "t",
       " ", "s", "c", "h", "e", "m", "a", ".", " ", "D", "e", "f", "i", "n",
       "e", " ", "s", "c", "h", "e", "m", "a", " ", "u", "s", "i", "n", "g",
       " ", "S", "t", "r", "u", "c", "t", "T", "y", "p", "e", "/", "S", "t",
       "r", "u", "c", "t", "F", "i", "e", "l", "d" >>

\* production.py:94  the three backticks that open and close a fenced block
Fence ==
    << "BQ", "BQ", "BQ" >>

\* production.py:94  (?:python|pyspark)
PythonTag ==
    << "p", "y", "t", "h", "o", "n" >>

\* production.py:94  (?:python|pyspark)
PysparkTag ==
    << "p", "y", "s", "p", "a", "r", "k" >>

\* the separator "\n"
Newline ==
    << "\n" >>

\* the separator "\n\n"
BlankLine ==
    << "\n", "\n" >>

\* production.py:228
RewriteHead ==
    << "F", "a", "i", "l", "u", "r", "e", "s", " ", "d", "e", "t", "e", "c",
       "t", "e", "d", ".", " ", "F", "i", "x", " ", "t", "h", "e", "s", "e",
       " ", "s", "p", "e", "c", "i", "f", "i", "c", " ", "i", "s", "s", "u",
       "e", "s", ":", "\n", "\n" >>

\* production.py:229-230
RewriteTail ==
    << "\n", "\n", "O", "u", "t", "p", "u", "t", " ", "t", "h", "e", " ", "c",
       "o", "m", "p", "l", "e", "t", "e", " ", "f", "i", "x", "e", "d", " ",
       "s", "c", "r", "i", "p", "t", " ", "i", "n", " ", "O", "N", "E", " ",
       "BQ", "BQ", "BQ", "p", "y", "t", "h", "o", "n", " ", ".", ".", ".", " ",
       "BQ", "BQ", "BQ", " ", "b", "l", "o", "c", "k", "." >>

\* production.py:241-242
DeployHead ==
    << "D", "e", "p", "l", "o", "y", "m", "e", "n", "t", " ", "T", "a", "r",
       "g", "e", "t", ":", " ", "A", "W", "S", " ", "G", "l", "u", "e", " ",
       "&", " ", "A", "z", "u", "r", "e", " ", "D", "a", "t", "a", "b", "r",
       "i", "c", "k", "s", "\n", "\n", "A", "p", "p", "r", "o", "v", "e", "d",
       " ", "S", "c", "r", "i", "p", "t", ":", "\n", "BQ", "BQ", "BQ", "p", "y",
       "t", "h", "o", "n", "\n" >>

\* production.py:242
DeployTail ==
    << "\n", "BQ", "BQ", "BQ" >>

\* production.py:268
DefaultTask ==
    << "W", "r", "i", "t", "e", " ", "a", " ", "c", "o", "n", "c", "i", "s",
       "e", " ", "P", "y", "S", "p", "a", "r", "k", " ", "s", "c", "r", "i",
       "p", "t", " ", "f", "o", "r", " ", "5", "0", "0", "G", "B", " ", "o",
       "f", " ", "s", "h", "i", "p", "p", "i", "n", "g", " ", "l", "o", "g",
       "s", ",", " ", "p", "a", "r", "t", "i", "t", "i", "o", "n", "e", "d",
       " ", "b", "y", " ", "e", "v", "e", "n", "t", "_", "d", "a", "t", "e",
       "." >>

\* production.py:167
DataArchitect ==
    << "D", "a", "t", "a", "_", "A", "r", "c", "h", "i", "t", "e", "c", "t" >>

\* production.py:181
CloudArchitect ==
    << "C", "l", "o", "u", "d", "_", "A", "r", "c", "h", "i", "t", "e", "c",
       "t" >>

\* production.py:198
Admin ==
    << "A", "d", "m", "i", "n" >>

\* production.py:250
FullSquadSuffix ==
    << "_", "f", "u", "l", "l", "_", "s", "q", "u", "a", "d" >>

\* production.py:132
TxtExt ==
    << ".", "t", "x", "t" >>

\* production.py:252
InfraFile ==
    << "i", "n", "f", "r", "a", "_", "c", "o", "n", "f", "i", "g", ".", "t",
       "x", "t" >>

\* production.py:260
ScriptFile ==
    << "a", "p", "p", "r", "o", "v", "e", "d", "_", "s", "c", "r", "i", "p",
       "t", ".", "p", "y" >>

\* production.py:137
TaskLabel ==
    << "T", "A", "S", "K", ":", " " >>

\* production.py:254
InfraHeader ==
    << "#", " ", "I", "n", "f", "r", "a", "s", "t", "r", "u", "c", "t", "u",
       "r", "e", " ", "C", "o", "n", "f", "i", "g", " ", "EMDASH", " ", "A",
       "u", "t", "o", "-", "g", "e", "n", "e", "r", "a", "t", "e", "d", " ",
       "b", "y", " ", "C", "l", "o", "u", "d", "_", "A", "r", "c", "h", "i",
       "t", "e", "c", "t", "\n" >>

\* production.py:255
InfraTaskLabel ==
    << "#", " ", "T", "a", "s", "k", ":", " " >>

\* production.py:262
ScriptHeader ==
    << "#", " ", "A", "u", "t", "o", "-", "g", "e", "n", "e", "r", "a", "t",
       "e", "d", " ", "b", "y", " ", "D", "a", "t", "a", "_", "A", "r", "c",
       "h", "i", "t", "e", "c", "t", "\n" >>

\* production.py:263
ReviewLabel ==
    << "#", " ", "R", "e", "v", "i", "e", "w", " ", "S", "t", "a", "t", "u",
       "s", ":", " " >>

\* production.py:263
ApprovedText ==
    << "A", "P", "P", "R", "O", "V", "E", "D" >>

\* production.py:263
BestEffortText ==
    << "B", "E", "S", "T", " ", "E", "F", "F", "O", "R", "T" >>

\* production.py:142
LabelSep ==
    << " ", "EMDASH", " " >>

\* production.py:140  the role written for a message that has none
UnknownRole ==
    << "u", "n", "k", "n", "o", "w", "n" >>

RoleAssistant ==
    << "a", "s", "s", "i", "s", "t", "a", "n", "t" >>

RoleUser ==
    << "u", "s", "e", "r" >>

LowerLetters ==
    << "a", "b", "c", "d", "e", "f", "g", "h", "i", "j", "k", "l", "m", "n",
       "o", "p", "q", "r", "s", "t", "u", "v", "w", "x", "y", "z" >>

UpperLetters ==
    << "A", "B", "C", "D", "E", "F", "G", "H", "I", "J", "K", "L", "M", "N",
       "O", "P", "Q", "R", "S", "T", "U", "V", "W", "X", "Y", "Z" >>

Digits ==
    << "0", "1", "2", "3", "4", "5", "6", "7", "8", "9" >>

FencedPass ==
    << "BQ", "BQ", "BQ", "p", "y", "t", "h", "o", "n", "\n", "p", "a", "r", "t",
       "i", "t", "i", "o", "n", "B", "y", " ", "t", "o", "_", "d", "a", "t",
       "e", " ", "S", "t", "r", "u", "c", "t", "T", "y", "p", "e", "\n", "BQ",
       "BQ", "BQ" >>

FencedPartial ==
    << "o", "k", " ", "BQ", "BQ", "BQ", "\n", "t", "o", "_", "d", "a", "t", "e",
       "\n", "BQ", "BQ", "BQ" >>

BlankReply ==
    << " ", "\n" >>

InfraReply ==
    << "S", "E", "C", "T", "I", "O", "N", " ", "1" >>

\* The texts extract_code_from_chat is applied to on its own.
\* A fenced block between prose.
SpecExample ==
    << "p", "r", "o", "s", "e", " ", "BQ", "BQ", "BQ", "p", "y", "t", "h", "o",
       "n", "\n", "S", "E", "L", "E", "C", "T", " ", "1", "\n", "BQ", "BQ",
       "BQ", " ", "t", "r", "a", "i", "l", "i", "n", "g" >>

\* The other tag, and whitespace around the body.
PysparkPadded ==
    << "BQ", "BQ", "BQ", "p", "y", "s", "p", "a", "r", "k", " ", " ", "\n",
       "\n", " ", " ", "x", " ", "=", " ", "1", " ", " ", "BQ", "BQ", "BQ" >>

\* A tag that is not one of the two.
SqlTagged ==
    << "BQ", "BQ", "BQ", "s", "q", "l", "\n", "y", "\n", "BQ", "BQ", "BQ" >>

\* Two blocks, the first without a tag.
TwoBlocks ==
    << "a", " ", "BQ", "BQ", "BQ", "b", "BQ", "BQ", "BQ", " ", "c", " ", "BQ",
       "BQ", "BQ", "p", "y", "t", "h", "o", "n", "\n", "d", "BQ", "BQ", "BQ",
       " ", "e" >>

\* No fence.
PlainText ==
    << "p", "l", "a", "i", "n", " ", "t", "e", "x", "t" >>

\* An opening fence that is never closed.
OpenOnly ==
    << "BQ", "BQ", "BQ", "p", "y", "t", "h", "o", "n", "\n", "c", "u", "t" >>

\* A lone fence at the end.
CloseOnly ==
    << "o", "f", "f", "\n", "BQ", "BQ", "BQ" >>

\* No fence, whitespace around.
PaddedText ==
    << " ", " ", "p", "a", "d", "d", "e", "d", " ", "\n" >>

\* Two fences with nothing between them.
EmptyBlock ==
    << "BQ", "BQ", "BQ", "BQ", "BQ", "BQ" >>

\* Single backticks.
InlineCode ==
    << "u", "s", "e", " ", "BQ", "x", "BQ" >>

\* The body of the block of SpecExample.
SelectOne ==
    << "S", "E", "L", "E", "C", "T", " ", "1" >>

\* spec.md: the task of the slug scenario.
SlugExampleTask ==
    << "W", "r", "i", "t", "e", " ", "a", " ", "c", "o", "n", "c", "i", "s",
       "e", " ", "P", "y", "S", "p", "a", "r", "k", " ", "s", "c", "r", "i",
       "p", "t", " ", "f", "o", "r", " ", "5", "0", "0", "G", "B", "!", "!" >>

\* spec.md: the slug the scenario states for it.
SlugExampleClaimed ==
    << "w", "r", "i", "t", "e", "_", "a", "_", "c", "o", "n", "c", "i", "s",
       "e", "_", "p", "y", "s", "p", "a", "r", "k", "_", "s", "c", "r", "i",
       "p", "t", "_", "f", "o", "r", "_", "5", "0", "0" >>

\* What lines 128-131 give for it.
SlugExampleActual ==
    << "w", "r", "i", "t", "e", "_", "a", "_", "c", "o", "n", "c", "i", "s",
       "e", "_", "p", "y", "s", "p", "a", "r", "k", "_", "s", "c", "r", "i",
       "p", "t", "_", "f", "o", "r", "_", "5", "0", "0", "g", "b" >>

\* production.py:28
Endpoint ==
    << "h", "t", "t", "p", "s", ":", "/", "/", "a", "p", "i", ".", "e", "u",
       "r", "o", "n", ".", "o", "n", "e", "/", "a", "p", "i", "/", "v", "1",
       "/", "e", "u", "r", "i", "/", "c", "h", "a", "t", "/", "c", "o", "m",
       "p", "l", "e", "t", "i", "o", "n", "s" >>

\* production.py:156
ModelName ==
    << "q", "w", "e", "n", "/", "q", "w", "e", "n", "3", "-", "3", "2", "b" >>

\* production.py:38
BearerPrefix ==
    << "B", "e", "a", "r", "e", "r", " " >>

\* production.py:39
JsonType ==
    << "a", "p", "p", "l", "i", "c", "a", "t", "i", "o", "n", "/", "j", "s",
       "o", "n" >>

\* production.py:67
StopReason ==
    << "s", "t", "o", "p" >>

\* The value of EURI_API_KEY (production.py:20).
ApiKey ==
    << "k", "e", "y" >>

\* A content the completion service returns.
ReplyText ==
    << "o", "k" >>

(***************************************************************************)
(* Python str primitives                                                   *)
(***************************************************************************)

\* Python's None.  A text is a sequence of characters; None is the one
\* sequence whose element is not a character, so it differs from every text.
None == << "None" >>

\* d.get(key, default) on a dict modelled as a record of the keys it holds.
Get(d, key, default) == IF key \in DOMAIN d THEN d[key] ELSE default

\* value or "": None and the empty text are falsy.
OrEmpty(value) == IF value = None \/ value = << >> THEN << >> ELSE value

\* str.isspace() on one character, as used by str.strip() and by \s.
IsSpace(c) == c \in {" ", "\t", "\n", "\r", "\f"}

\* s[i-1:].startswith(m), with i counted from 1.
StartsWithAt(s, i, m) ==
    /\ i >= 1
    /\ i + Len(m) - 1 <= Len(s)
    /\ SubSeq(s, i, i + Len(m) - 1) = m

\* Python's  m in s  on strings: m occurs in s as a contiguous substring.
In(m, s) == \E i \in 1..(Len(s) - Len(m) + 1) : StartsWithAt(s, i, m)

\* s.find(m, i-1) + 1: the least position >= i where m occurs, 0 when none.
Find(s, m, i) ==
    IF \E j \in i..(Len(s) - Len(m) + 1) : StartsWithAt(s, j, m)
        THEN CHOOSE j \in i..(Len(s) - Len(m) + 1) :
                 /\ StartsWithAt(s, j, m)
                 /\ \A k \in i..(j - 1) : ~StartsWithAt(s, k, m)
        ELSE 0

\* The number of whitespace characters s begins with, and ends with.
LeadingSpaces(s) ==
    CHOOSE n \in 0..Len(s) :
        /\ \A k \in 1..n : IsSpace(s[k])
        /\ (n = Len(s) \/ ~IsSpace(s[n + 1]))

TrailingSpaces(s) ==
    CHOOSE n \in 0..Len(s) :
        /\ \A k \in 1..n : IsSpace(s[Len(s) + 1 - k])
        /\ (n = Len(s) \/ ~IsSpace(s[Len(s) - n]))

\* s.strip().  (In { e : v \in { s } } the text s is evaluated once and v is
\* its value; the set has the one element e.)
Strip(s) ==
    CHOOSE r \in { IF LeadingSpaces(v) = Len(v) THEN << >>
                   ELSE SubSeq(v, LeadingSpaces(v) + 1, Len(v) - TrailingSpaces(v))
                   : v \in { s } } : TRUE

\* sep.join(parts), by halves.
RECURSIVE Join(_, _)
Join(sep, parts) ==
    CHOOSE r \in { IF ps = << >> THEN << >>
                   ELSE IF Len(ps) = 1 THEN ps[1]
                   ELSE Join(sep, SubSeq(ps, 1, Len(ps) \div 2)) \o sep
                        \o Join(sep, SubSeq(ps, Len(ps) \div 2 + 1, Len(ps)))
                   : ps \in { parts } } : TRUE

\* The position after the run of whitespace that starts at i (regex \s*).
SkipSpace(s, i) ==
    CHOOSE j \in i..(Len(s) + 1) :
        /\ \A k \in i..(j - 1) : IsSpace(s[k])
        /\ (j = Len(s) + 1 \/ ~IsSpace(s[j]))

(***************************************************************************)
(* extract_code_from_chat / extract_text_from_chat                         *)
(***************************************************************************)

\* (?:python|pyspark)? at position i: the position after the optional tag.
\* The alternation tries "python" first; the group is greedy, and skipping a
\* tag that is present never finds a closing fence the tagged attempt misses.
SkipTag(s, i) ==
    IF StartsWithAt(s, i, PythonTag) THEN i + Len(PythonTag)
    ELSE IF StartsWithAt(s, i, PysparkTag) THEN i + Len(PysparkTag)
    ELSE i

\* re.findall(r"```(?:python|pyspark)?\s*\n?(.*?)```", s, re.DOTALL) scanning
\* from position i: the captured bodies of the non-overlapping matches, left
\* to right.  After \s* has taken every whitespace character \n? matches the
\* empty string; (.*?) is lazy, so the body ends at the first closing fence.
\* A slip: an opening fence that is never closed still opens a block.
FindBlocks_OpenEnded(s, i) ==
    LET open == Find(s, Fence, i)
    IN  IF open = 0 THEN << >>
        ELSE LET body  == SkipSpace(s, SkipTag(s, open + Len(Fence)))
                 close == Find(s, Fence, body)
             IN  << SubSeq(s, body, IF close = 0 THEN Len(s) ELSE close - 1) >>

RECURSIVE FindBlocks(_, _)
FindBlocks(s, i) ==
    LET open == Find(s, Fence, i)
    IN  IF open = 0 THEN << >>
        ELSE LET body  == SkipSpace(s, SkipTag(s, open + Len(Fence)))
                 close == Find(s, Fence, body)
             IN  IF close = 0 THEN << >>
                 ELSE << SubSeq(s, body, close - 1) >>
                          \o FindBlocks(s, close + Len(Fence))

\* A slip: the author of a message is not looked at.
AgentParts_AnyName(chat_history, agent_name) ==
    LET contents == [ k \in 1..Len(chat_history) |->
                        Strip(OrEmpty(Get(chat_history[k], "content", None))) ]
    IN  SelectSeq(contents, LAMBDA c : c # << >>)

\* The loop of lines 84-88 (and 102-106): the stripped contents of the
\* messages named agent_name whose stripped content is not empty.
AgentParts(chat_history, agent_name) ==
    CHOOSE r \in
        { [ k \in 1..Len(kept) |-> kept[k].content ]
          : kept \in { SelectSeq([ k \in 1..Len(chat_history) |->
                                     [ name    |-> Get(chat_history[k], "name", << >>),
                                       content |-> Strip(OrEmpty(Get(chat_history[k],
                                                                     "content", None))) ] ],
                                 LAMBDA msg : /\ msg.name = agent_name
                                              /\ msg.content # << >>) } } : TRUE

\* A slip: the bodies are not stripped.
StripEach_Raw(blocks) == blocks

\* b.strip() for b in blocks
StripEach(blocks) == [ k \in 1..Len(blocks) |-> Strip(blocks[k]) ]

\* After the loop, lines 90-97.
CodeOfParts(parts) ==
    IF parts = << >> THEN << >>
    ELSE CHOOSE r \in
             { CHOOSE c \in { IF blocks # << >>
                                 THEN Join(BlankLine, StripEach(blocks))
                                 ELSE stitched
                              : blocks \in { FindBlocks(stitched, 1) } } : TRUE
               : stitched \in { Join(Newline, parts) } } : TRUE

extract_code_from_chat(chat_history, agent_name) ==
    CHOOSE r \in { CodeOfParts(parts)
                   : parts \in { AgentParts(chat_history, agent_name) } } : TRUE

extract_text_from_chat(chat_history, agent_name) ==
    Join(Newline, AgentParts(chat_history, agent_name))

(***************************************************************************)
(* local_quality_check                                                     *)
(***************************************************************************)

\* A slip: an empty script is not asked for the first marker.
Rule1Violated_NonEmptyOnly(code) == code # << >> /\ ~In(PartitionByMarker, code)

Rule1Violated(code) == ~In(PartitionByMarker, code)

Rule2Violated(code) == ~In(ToDateMarker, code)

\* A slip: the rule asks for both markers.
Rule3Violated_Either(code) ==
    ~In(StructTypeMarker, code) \/ ~In(StructFieldMarker, code)

Rule3Violated(code) == ~In(StructTypeMarker, code) /\ ~In(StructFieldMarker, code)

local_quality_check(code) ==
    LET failures == (IF Rule1Violated(code) THEN << Rule1Failure >> ELSE << >>)
                    \o (IF Rule2Violated(code) THEN << Rule2Failure >> ELSE << >>)
                    \o (IF Rule3Violated(code) THEN << Rule3Failure >> ELSE << >>)
    IN  [ passed |-> Len(failures) = 0, failures |-> failures ]

(***************************************************************************)
(* save_conversation and the two artifacts of run_engineering_squad        *)
(***************************************************************************)

RuleWidth == 80

SlugLen == 40

Repeat(c, n) == [ i \in 1..n |-> c ]

IndexIn(alphabet, c) == CHOOSE i \in 1..Len(alphabet) : alphabet[i] = c

IsLower(c) == \E i \in 1..Len(LowerLetters) : LowerLetters[i] = c

IsUpper(c) == \E i \in 1..Len(UpperLetters) : UpperLetters[i] = c

IsDigit(c) == \E i \in 1..Len(Digits) : Digits[i] = c

\* A slip: the text is not lower-cased.
Lower_Identity(s) == s

\* str.lower() and str.upper() on the characters of the model's alphabet.
Lower(s) ==
    [ i \in 1..Len(s) |->
        IF IsUpper(s[i]) THEN LowerLetters[IndexIn(UpperLetters, s[i])] ELSE s[i] ]

Upper(s) ==
    [ i \in 1..Len(s) |->
        IF IsLower(s[i]) THEN UpperLetters[IndexIn(LowerLetters, s[i])] ELSE s[i] ]

\* The character class [a-z0-9\s].
IsSlugChar(c) == IsLower(c) \/ IsDigit(c) \/ IsSpace(c)

\* re.sub(r"[^a-z0-9\s]", "", s)
DropNonSlugChars(s) == SelectSeq(s, IsSlugChar)

\* re.sub(r"\s+", "_", s): every maximal run of whitespace becomes one "_"
\* (its first character becomes "_", the others of the run are removed).
CollapseSpace(s) ==
    LET marked == [ i \in 1..Len(s) |->
                      IF ~IsSpace(s[i]) THEN s[i]
                      ELSE IF i > 1 /\ IsSpace(s[i - 1]) THEN "" ELSE "_" ]
    IN  SelectSeq(marked, LAMBDA c : c # "")

\* s[:n]
Prefix(s, n) == SubSeq(s, 1, IF Len(s) < n THEN Len(s) ELSE n)

Slug(task_message) ==
    CHOOSE r \in { Prefix(CollapseSpace(stripped), SlugLen)
                   : stripped \in { Strip(DropNonSlugChars(Lower(task_message))) } }
        : TRUE

TranscriptName(task_message, suffix) == Slug(task_message) \o suffix \o TxtExt

MessageLabel(message) ==
    LET role == Upper(Get(message, "role", UnknownRole))
        name == Get(message, "name", << >>)
    IN  IF name = << >>
            THEN << "[" >> \o role \o << "]" >>
            ELSE << "[" >> \o role \o LabelSep \o Upper(name) \o << "]" >>

\* What the loop of lines 139-146 writes for one message.
TranscriptEntry(message) ==
    MessageLabel(message) \o Newline
    \o Strip(OrEmpty(Get(message, "content", << >>)))
    \o BlankLine \o Repeat("-", RuleWidth) \o BlankLine

TranscriptBody(chat_history) ==
    Join(<< >>, [ k \in 1..Len(chat_history) |-> TranscriptEntry(chat_history[k]) ])

TranscriptText(chat_history, task_message) ==
    TaskLabel \o task_message \o Newline
    \o Repeat("=", RuleWidth) \o BlankLine
    \o TranscriptBody(chat_history)

InfraText(task_message, output) ==
    InfraHeader \o InfraTaskLabel \o task_message \o Newline
    \o Repeat("=", RuleWidth) \o BlankLine \o output

\* A slip: the script is written only when it was approved.
ScriptText_ApprovedOnly(is_approved, script) ==
    ScriptHeader
    \o ReviewLabel \o (IF is_approved THEN ApprovedText ELSE BestEffortText)
    \o BlankLine \o (IF is_approved THEN script ELSE << >>)

ScriptText(is_approved, script) ==
    ScriptHeader
    \o ReviewLabel \o (IF is_approved THEN ApprovedText ELSE BestEffortText)
    \o BlankLine \o script

\* open(path, "w") and the writes under it: the file is replaced as a whole.
WriteFile(fs, name, text) ==
    [ f \in DOMAIN fs \cup { name } |-> IF f = name THEN text ELSE fs[f] ]

(***************************************************************************)
(* EuronClient.create                                                      *)
(***************************************************************************)

\* messages[-5:]
WindowLen == 5

\* make_llm_config(max_tokens=1200), kept as self.max_out_tokens.
MaxOutTokens == 1200

\* A value decoded by response.json(), tagged with its Python type: t is one
\* of "dict", "list", "str", "int", "NoneType", and v is the record, the
\* sequence, the text or the number (the empty sequence for None).
JDict(fields) == [ t |-> "dict", v |-> fields ]

JList(items) == [ t |-> "list", v |-> items ]

JStr(text) == [ t |-> "str", v |-> text ]

JInt(n) == [ t |-> "int", v |-> n ]

JNone == [ t |-> "NoneType", v |-> << >> ]

\* A body response.json() cannot decode.
NotJson == [ t |-> "notjson", v |-> << >> ]

\* An exception in place of a value.
Raise(exception) == [ t |-> "raise", v |-> exception ]

\* x[key] for a str key; an exception raised earlier in the expression stays.
ItemKey(x, key) ==
    IF x.t = "raise" THEN x
    ELSE IF x.t = "dict"
        THEN IF key \in DOMAIN x.v THEN x.v[key] ELSE Raise("KeyError")
    ELSE Raise("TypeError")

\* x[i] for an int i >= 0.  A dict decoded from JSON has str keys only.
ItemIndex(x, i) ==
    IF x.t = "raise" THEN x
    ELSE IF x.t = "list"
        THEN IF i < Len(x.v) THEN x.v[i + 1] ELSE Raise("IndexError")
    ELSE IF x.t = "str"
        THEN IF i < Len(x.v) THEN JStr(<< x.v[i + 1] >>) ELSE Raise("IndexError")
    ELSE IF x.t = "dict" THEN Raise("KeyError")
    ELSE Raise("TypeError")

\* response.raise_for_status() raises for the 4xx and 5xx statuses.
RaisesForStatus(status) == status >= 400 /\ status < 600

\* response.json(), then data["choices"][0]["message"]["content"]
ReplyContent(response) ==
    IF response.body.t = "notjson" THEN Raise("JSONDecodeError")
    ELSE ItemKey(ItemKey(ItemIndex(ItemKey(response.body, "choices"), 0),
                         "message"), "content")

\* A slip: the first five messages.
LimitedMessages_First(messages) ==
    SubSeq(messages, 1, IF Len(messages) < WindowLen THEN Len(messages) ELSE WindowLen)

\* messages[-5:]
LimitedMessages(messages) ==
    SubSeq(messages,
           IF Len(messages) < WindowLen THEN 1 ELSE Len(messages) - WindowLen + 1,
           Len(messages))

\* Lines 33-36.
FormattedMessages(limited_messages) ==
    [ j \in 1..Len(limited_messages) |->
        [ role    |-> Get(limited_messages[j], "role", RoleUser),
          content |-> Get(limited_messages[j], "content", << >>) ] ]

\* The arguments of requests.post, lines 37-47.
PostRequest(params) ==
    [ url     |-> Endpoint,
      headers |-> [ Authorization |-> BearerPrefix \o ApiKey,
                    ContentType   |-> JsonType ],
      json    |-> [ model       |-> ModelName,
                    messages    |-> FormattedMessages(
                                        LimitedMessages(Get(params, "messages", << >>))),
                    max_tokens  |-> MaxOutTokens,
                    temperature |-> 0 ] ]

\* MockResponse(content, model), lines 52-69.
MockResponse(content, model) ==
    [ choices |-> << [ message       |-> [ content |-> content,
                                           function_call |-> JNone ],
                       finish_reason |-> StopReason ] >>,
      model   |-> model,
      usage   |-> [ prompt_tokens |-> 0, completion_tokens |-> 0,
                    total_tokens |-> 0 ] ]

(***************************************************************************)
(* Bounds of the model                                                     *)
(***************************************************************************)

\* max_review_cycles ranges over 0..MaxCycles.
MaxCycles == 3

\* The most chunks of a text handed to local_quality_check on its own.
MaxChunks == 3

\* The most messages of a chat history handed to extract_code_from_chat on
\* its own.
MaxMsgs == 2

\* The most messages of params["messages"] handed to EuronClient.create.
MaxMessages == 6

(***************************************************************************)
(* The chats of autogen, as run_engineering_squad sees them                *)
(***************************************************************************)

ArchitectMaxTurns == 3

CloudMaxTurns == 2

Message(role, name, content) ==
    [ role |-> role, name |-> name, content |-> content ]

\* The replies of the drafting agent in one chat: none, a complete fenced
\* script, prose around a fenced fragment, whitespace only, and a fragment
\* followed by the complete script.
ArchitectReplies ==
    { << >>, << FencedPass >>, << FencedPartial >>, << BlankReply >>,
      << FencedPartial, FencedPass >> }

\* The replies of the deployment agent in one chat.
CloudReplies == { << >>, << InfraReply >>, << InfraReply, BlankReply >> }

\* The replies one chat of at most max_turns turns can hold.
ReplySeqs(replies, max_turns) == { r \in replies : Len(r) <= max_turns }

\* chat_result.chat_history of user_proxy.initiate_chat(agent, message=...):
\* the message Admin sent, then the agent's replies in order.
ChatHistory(agent_name, message, replies) ==
    << Message(RoleAssistant, Admin, message) >>
    \o [ k \in 1..Len(replies) |-> Message(RoleUser, agent_name, replies[k]) ]

(***************************************************************************)
(* run_engineering_squad                                                   *)
(***************************************************************************)

VARIABLES
    task,               \* parameter task
    max_review_cycles,  \* parameter max_review_cycles
    pc,                 \* where the run is
    all_history,        \* line 206
    current_script,     \* line 211, 234
    approved,           \* line 214, 221
    cycle,              \* the loop variable of line 215 (0: not yet bound)
    passed,             \* line 217
    failures,           \* line 217
    cloud_output,       \* line 246
    files,              \* the files written so far: name -> text
    calls,              \* history: every initiate_chat made, in order
    checks,             \* history: every local_quality_check made, in order
    drafts,             \* history: every script extracted, in order
    call_failed,        \* history: a completion call has raised
    arg,                \* the argument of a function applied on its own
    ret                 \* its result

vars == << task, max_review_cycles, pc, all_history, current_script, approved,
           cycle, passed, failures, cloud_output, files, calls, checks,
           drafts, call_failed, arg, ret >>

Tasks == { DefaultTask }

NoFiles == [ f \in {} |-> << >> ]

Init ==
    /\ task \in Tasks
    /\ max_review_cycles \in 0..MaxCycles
    /\ pc = "DRAFTING"
    /\ all_history = << >>
    /\ current_script = << >>
    /\ approved = FALSE
    /\ cycle = 0
    /\ passed = FALSE
    /\ failures = << >>
    /\ cloud_output = << >>
    /\ files = NoFiles
    /\ calls = << >>
    /\ checks = << >>
    /\ drafts = << >>
    /\ call_failed = FALSE
    /\ arg = << >>
    /\ ret = << >>

\* A slip: range(1, max_review_cycles).
CycleRange_Short(limit) == 1..(limit - 1)

\* range(1, max_review_cycles + 1)
CycleRange(limit) == 1..limit

\* A slip: a loop that never advances its counter.
NextCycle_Stuck(c) == c

\* The for statement taking its next value.
NextCycle(c) == c + 1

\* A slip: the break is missing.
BreaksLoop_Never(p) == FALSE

\* if passed: ... break
BreaksLoop(p) == p

\* A slip: cycle <= max_review_cycles.
MayRevise_Inclusive(c, limit) == c <= limit

\* if cycle < max_review_cycles:
MayRevise(c, limit) == c < limit

\* Where the run goes when the loop asks for the value c: the loop body, or
\* the statement after the loop when the range is exhausted.
LoopAt(c, limit) == IF c \in CycleRange(limit) THEN "VALIDATING" ELSE "DEPLOYING"

\* The loop variable keeps its last value when the range is exhausted.
LoopVar(c, old, limit) == IF c \in CycleRange(limit) THEN c ELSE old

\* A slip: the error is swallowed and the run goes on to its next stage.
FatalPc_Swallowed(stage) ==
    IF stage = "DEPLOYING" THEN "SAVING_TRANSCRIPT" ELSE "DEPLOYING"

\* requests.post / raise_for_status / data["choices"][0]... raising inside
\* initiate_chat: nothing in run_engineering_squad catches it.
FatalPc(stage) == "ABORTED"

\* A slip: the request always lists the three rules.
RewriteMessage_AllRules(fails) ==
    RewriteHead
    \o Join(Newline, << Rule1Failure, Rule2Failure, Rule3Failure >>)
    \o RewriteTail

\* The message of the revision request, lines 227-231.
RewriteMessage(fails) == RewriteHead \o Join(Newline, fails) \o RewriteTail

\* A slip: the script is not interpolated into the message.
DeployMessage_NoScript(script) == DeployHead \o DeployTail

\* A slip: = in place of +=.
Extend_Replace(history, chat_history) == chat_history

\* all_history += chat.chat_history, lines 212, 235 and 247.
Extend(history, chat_history) == history \o chat_history

\* The message of the deployment request, lines 240-243.
DeployMessage(script) == DeployHead \o script \o DeployTail

Revisions ==
    Cardinality({ i \in 2..Len(calls) : calls[i].to = DataArchitect })

Deploys ==
    Cardinality({ i \in 1..Len(calls) : calls[i].to = CloudArchitect })

\* No correct run reaches them: they keep the histories finite.
RevisionCap == MaxCycles + 1

CheckCap == MaxCycles + 1

Fatal(stage) ==
    /\ pc' = FatalPc(stage)
    /\ call_failed' = TRUE
    /\ UNCHANGED << all_history, current_script, approved, cycle, drafts,
                    cloud_output >>

\* STAGE 1, lines 210-215.
Draft ==
    /\ pc = "DRAFTING"
    /\ calls' = Append(calls, [ to |-> DataArchitect, message |-> task ])
    /\ \/ \E replies \in ReplySeqs(ArchitectReplies, ArchitectMaxTurns) :
            LET arch_chat == ChatHistory(DataArchitect, task, replies)
                script    == extract_code_from_chat(arch_chat, DataArchitect)
            IN  /\ current_script' = script
                /\ drafts' = Append(drafts, script)
                /\ all_history' = Extend(all_history, arch_chat)
                /\ approved' = FALSE
                /\ cycle' = LoopVar(1, cycle, max_review_cycles)
                /\ pc' = LoopAt(1, max_review_cycles)
                /\ UNCHANGED << call_failed, cloud_output >>
       \/ Fatal("DRAFTING")
    /\ UNCHANGED << task, max_review_cycles, passed, failures, files, checks,
                    arg, ret >>

\* STAGE 2, lines 216-224: one quality check and the branch it takes.
Validate ==
    /\ pc = "VALIDATING"
    /\ Len(checks) < CheckCap
    /\ LET result == local_quality_check(current_script)
       IN  /\ passed' = result.passed
           /\ failures' = result.failures
           /\ checks' = Append(checks, [ code |-> current_script,
                                         passed |-> result.passed ])
           /\ approved' = (IF result.passed THEN TRUE ELSE approved)
           /\ IF BreaksLoop(result.passed)
                 THEN /\ pc' = "DEPLOYING"
                      /\ cycle' = cycle
                 ELSE IF MayRevise(cycle, max_review_cycles)
                 THEN /\ pc' = "REVISING"
                      /\ cycle' = cycle
                 ELSE /\ pc' = LoopAt(NextCycle(cycle), max_review_cycles)
                      /\ cycle' = LoopVar(NextCycle(cycle), cycle,
                                          max_review_cycles)
    /\ UNCHANGED << task, max_review_cycles, all_history, current_script,
                    cloud_output, files, calls, drafts, call_failed, arg, ret >>

\* Lines 225-235: the revision request, and the loop taking its next value.
Revise ==
    /\ pc = "REVISING"
    /\ Revisions < RevisionCap
    /\ calls' = Append(calls, [ to |-> DataArchitect,
                                message |-> RewriteMessage(failures) ])
    /\ \/ \E replies \in ReplySeqs(ArchitectReplies, ArchitectMaxTurns) :
            LET rewrite_chat == ChatHistory(DataArchitect,
                                            RewriteMessage(failures), replies)
                script == extract_code_from_chat(rewrite_chat, DataArchitect)
            IN  /\ current_script' = script
                /\ drafts' = Append(drafts, script)
                /\ all_history' = Extend(all_history, rewrite_chat)
                /\ pc' = LoopAt(NextCycle(cycle), max_review_cycles)
                /\ cycle' = LoopVar(NextCycle(cycle), cycle, max_review_cycles)
                /\ UNCHANGED << approved, call_failed, cloud_output >>
       \/ Fatal("REVISING")
    /\ UNCHANGED << task, max_review_cycles, passed, failures, files, checks,
                    arg, ret >>

\* STAGE 3, lines 237-247.
Deploy ==
    /\ pc = "DEPLOYING"
    /\ calls' = Append(calls, [ to |-> CloudArchitect,
                                message |-> DeployMessage(current_script) ])
    /\ \/ \E replies \in ReplySeqs(CloudReplies, CloudMaxTurns) :
            LET cloud_chat == ChatHistory(CloudArchitect,
                                          DeployMessage(current_script), replies)
            IN  /\ cloud_output' = extract_text_from_chat(cloud_chat, CloudArchitect)
                /\ all_history' = Extend(all_history, cloud_chat)
                /\ pc' = "SAVING_TRANSCRIPT"
                /\ UNCHANGED << current_script, approved, cycle, drafts,
                                call_failed >>
       \/ Fatal("DEPLOYING")
    /\ UNCHANGED << task, max_review_cycles, passed, failures, files, checks,
                    arg, ret >>

\* Line 250: save_conversation(all_history, task, suffix="_full_squad").
SaveTranscript ==
    /\ pc = "SAVING_TRANSCRIPT"
    /\ files' = WriteFile(files, TranscriptName(task, FullSquadSuffix),
                          TranscriptText(all_history, task))
    /\ pc' = "SAVING_INFRA"
    /\ UNCHANGED << task, max_review_cycles, all_history, current_script,
                    approved, cycle, passed, failures, cloud_output, calls,
                    checks, drafts, call_failed, arg, ret >>

\* Lines 252-258.
SaveInfra ==
    /\ pc = "SAVING_INFRA"
    /\ files' = WriteFile(files, InfraFile, InfraText(task, cloud_output))
    /\ pc' = "SAVING_SCRIPT"
    /\ UNCHANGED << task, max_review_cycles, all_history, current_script,
                    approved, cycle, passed, failures, cloud_output, calls,
                    checks, drafts, call_failed, arg, ret >>

\* Lines 260-265.
SaveScript ==
    /\ pc = "SAVING_SCRIPT"
    /\ files' = WriteFile(files, ScriptFile, ScriptText(approved, current_script))
    /\ pc' = "DONE"
    /\ UNCHANGED << task, max_review_cycles, all_history, current_script,
                    approved, cycle, passed, failures, cloud_output, calls,
                    checks, drafts, call_failed, arg, ret >>

Next ==
    \/ Draft
    \/ Validate
    \/ Revise
    \/ Deploy
    \/ SaveTranscript
    \/ SaveInfra
    \/ SaveScript

Spec == Init /\ [][Next]_vars

\* The run is one sequential thread: while a statement remains it is executed.
FairSpec == Spec /\ WF_vars(Next)
(***************************************************************************)
(* local_quality_check applied on its own                                  *)
(***************************************************************************)

\* The pieces the checked texts are made of: the four markers, the two
\* halves of "to_date", and a blank.
GateChunks ==
    { PartitionByMarker, ToDateMarker, StructTypeMarker, StructFieldMarker,
      << "t", "o", "_" >>, << "d", "a", "t", "e" >>, << " " >> }

GateTexts ==
    { Join(<< >>, cs) : cs \in UNION { [ 1..k -> GateChunks ] : k \in 0..MaxChunks } }

GateInit ==
    /\ task \in Tasks
    /\ max_review_cycles = 0
    /\ pc = "GATE"
    /\ all_history = << >>
    /\ current_script = << >>
    /\ approved = FALSE
    /\ cycle = 0
    /\ passed = FALSE
    /\ failures = << >>
    /\ cloud_output = << >>
    /\ files = NoFiles
    /\ calls = << >>
    /\ checks = << >>
    /\ drafts = << >>
    /\ call_failed = FALSE
    /\ arg \in GateTexts
    /\ ret = << >>

GateCheck ==
    /\ pc = "GATE"
    /\ ret' = local_quality_check(arg)
    /\ pc' = "GATE_DONE"
    /\ UNCHANGED << task, max_review_cycles, all_history, current_script,
                    approved, cycle, passed, failures, cloud_output, files,
                    calls, checks, drafts, call_failed, arg >>

GateNext == GateCheck

GateSpec == GateInit /\ [][GateNext]_vars

(***************************************************************************)
(* extract_code_from_chat applied on its own                               *)
(***************************************************************************)

\* The messages of the histories: the agent saying each of the texts, and
\* the messages the loop of lines 84-88 passes over: another agent's script,
\* the agent's whitespace, a content of None, no content key, no name key.
ExtractMessages ==
    { Message(RoleUser, DataArchitect, c) :
        c \in { SpecExample, PysparkPadded, SqlTagged, TwoBlocks, PlainText,
                OpenOnly, CloseOnly, PaddedText, EmptyBlock, InlineCode } }
    \cup { Message(RoleUser, CloudArchitect, FencedPass),
           Message(RoleUser, DataArchitect, BlankReply),
           Message(RoleUser, DataArchitect, None),
           [ role |-> RoleUser, name |-> DataArchitect ],
           [ role |-> RoleUser, content |-> PlainText ] }

ExtractHistories == UNION { [ 1..n -> ExtractMessages ] : n \in 0..MaxMsgs }

ExtractInit ==
    /\ task \in Tasks
    /\ max_review_cycles = 0
    /\ pc = "EXTRACT"
    /\ all_history = << >>
    /\ current_script = << >>
    /\ approved = FALSE
    /\ cycle = 0
    /\ passed = FALSE
    /\ failures = << >>
    /\ cloud_output = << >>
    /\ files = NoFiles
    /\ calls = << >>
    /\ checks = << >>
    /\ drafts = << >>
    /\ call_failed = FALSE
    /\ \E h \in ExtractHistories :
          arg = [ chat_history |-> h, agent_name |-> DataArchitect ]
    /\ ret = << >>

\* extract_code_from_chat(chat_result, agent_name); calls and drafts record
\* the argument and the result.
ExtractCode ==
    /\ pc = "EXTRACT"
    /\ ret' = extract_code_from_chat(arg.chat_history, arg.agent_name)
    /\ calls' = Append(calls, arg)
    /\ drafts' = Append(drafts, ret')
    /\ pc' = "EXTRACTED"
    /\ UNCHANGED << task, max_review_cycles, all_history, current_script,
                    approved, cycle, passed, failures, cloud_output, files,
                    checks, call_failed, arg >>

\* A second pass: the function applied to a history whose only message is
\* the agent saying the result of the first.
ExtractAgain ==
    /\ pc = "EXTRACTED"
    /\ arg' = [ chat_history |-> << Message(RoleUser, arg.agent_name, ret) >>,
                agent_name   |-> arg.agent_name ]
    /\ ret' = extract_code_from_chat(arg'.chat_history, arg'.agent_name)
    /\ calls' = Append(calls, arg')
    /\ drafts' = Append(drafts, ret')
    /\ pc' = "EXTRACTED_AGAIN"
    /\ UNCHANGED << task, max_review_cycles, all_history, current_script,
                    approved, cycle, passed, failures, cloud_output, files,
                    checks, call_failed >>

ExtractNext == ExtractCode \/ ExtractAgain

ExtractSpec == ExtractInit /\ [][ExtractNext]_vars

(***************************************************************************)
(* save_conversation applied on its own                                    *)
(***************************************************************************)

\* The pieces the task messages are made of: words in both cases, digits,
\* punctuation, an underscore, and whitespace of one and of two characters.
SlugChunks ==
    { << "W", "r", "i", "t", "e" >>, << "5", "0", "0", "G", "B" >>,
      << "!", "!" >>, << "_" >>, << "a" >>, << " " >>, << "\t", "\n" >> }

\* Task messages: the chunk texts, the task of the scenario, and the task of
\* line 268, which is longer than the slug may be.
SlugTasks ==
    { Join(<< >>, cs) : cs \in UNION { [ 1..k -> SlugChunks ] : k \in 0..MaxChunks } }
    \cup { SlugExampleTask, DefaultTask }

\* Histories to write: none, a named message, and a message with neither
\* role nor name.
SlugHistories ==
    { << >>, << Message(RoleUser, DataArchitect, PlainText) >>,
      << [ content |-> PaddedText ] >> }

SlugInit ==
    /\ task \in Tasks
    /\ max_review_cycles = 0
    /\ pc = "SAVE"
    /\ all_history = << >>
    /\ current_script = << >>
    /\ approved = FALSE
    /\ cycle = 0
    /\ passed = FALSE
    /\ failures = << >>
    /\ cloud_output = << >>
    /\ files = NoFiles
    /\ calls = << >>
    /\ checks = << >>
    /\ drafts = << >>
    /\ call_failed = FALSE
    /\ \E t \in SlugTasks, h \in SlugHistories, x \in { << >>, FullSquadSuffix } :
          arg = [ chat_history |-> h, task_message |-> t, suffix |-> x ]
    /\ ret = << >>

\* save_conversation(chat_history, task_message, suffix): writes the file and
\* returns its name.
SaveConversation ==
    /\ pc = "SAVE"
    /\ files' = WriteFile(files, TranscriptName(arg.task_message, arg.suffix),
                          TranscriptText(arg.chat_history, arg.task_message))
    /\ ret' = TranscriptName(arg.task_message, arg.suffix)
    /\ pc' = "SAVED"
    /\ UNCHANGED << task, max_review_cycles, all_history, current_script,
                    approved, cycle, passed, failures, cloud_output, calls,
                    checks, drafts, call_failed, arg >>

SlugNext == SaveConversation

SlugSpec == SlugInit /\ [][SlugNext]_vars

(***************************************************************************)
(* EuronClient.create applied on its own                                   *)
(***************************************************************************)

\* The messages of params["messages"]: one with a name, one without a role,
\* one without a content.
CreateMessages ==
    { Message(RoleAssistant, DataArchitect, ReplyText),
      [ content |-> PlainText ],
      [ role |-> RoleAssistant ] }

\* params: with a message list, and without the key.
CreateParams ==
    { [ messages |-> ms ] :
        ms \in UNION { [ 1..n -> CreateMessages ] : n \in 0..MaxMessages } }
    \cup { [ model |-> ModelName ] }

\* A reply body with one choice whose message holds content.
WithContent(content) ==
    JDict([ choices |-> JList(<< JDict([ message |->
                                            JDict([ content |-> content ]) ]) >>) ])

\* The bodies requests.post can return with a success status: one that is
\* not JSON, and decoded bodies of the expected and of other shapes.  (A
\* sequence: values of different Python types are never compared.)
Bodies ==
    << NotJson,
       WithContent(JStr(ReplyText)),
       WithContent(JStr(<< >>)),
       WithContent(JNone),
       WithContent(JInt(5)),
       WithContent(JList(<< JStr(ReplyText) >>)),
       JDict([ choices |->
                 JList(<< JDict([ message |-> JDict([ content |-> JStr(ReplyText) ]) ]),
                          JDict([ message |-> JDict([ content |-> JNone ]) ]) >>) ]),
       JDict([ id |-> JStr(ReplyText) ]),
       JDict([ choices |-> JList(<< >>) ]),
       JDict([ choices |-> JNone ]),
       JDict([ choices |-> JStr(ReplyText) ]),
       JDict([ choices |-> JList(<< JDict([ index |-> JInt(0) ]) >>) ]),
       JDict([ choices |-> JList(<< JDict([ message |-> JNone ]) >>) ]),
       JDict([ choices |-> JList(<< JDict([ message |-> JStr(ReplyText) ]) >>) ]),
       JDict([ choices |->
                 JList(<< JDict([ message |->
                                    JDict([ role |-> JStr(RoleAssistant) ]) ]) >>) ]),
       JList(<< >>) >>

\* What requests.post can return: each body with a success status, and two
\* error statuses.
Responses ==
    [ k \in 1..Len(Bodies) |-> [ status |-> 200, body |-> Bodies[k] ] ]
    \o << [ status |-> 500, body |-> NotJson ],
          [ status |-> 404, body |-> WithContent(JStr(ReplyText)) ] >>

CreateInit ==
    /\ task \in Tasks
    /\ max_review_cycles = 0
    /\ pc = "CREATE"
    /\ all_history = << >>
    /\ current_script = << >>
    /\ approved = FALSE
    /\ cycle = 0
    /\ passed = FALSE
    /\ failures = << >>
    /\ cloud_output = << >>
    /\ files = NoFiles
    /\ calls = << >>
    /\ checks = << >>
    /\ drafts = << >>
    /\ call_failed = FALSE
    /\ arg \in CreateParams
    /\ ret = << >>

\* EuronClient.create(params); calls records the request posted and the
\* response to it.
Create ==
    /\ pc = "CREATE"
    /\ \E r \in 1..Len(Responses) :
          LET response == Responses[r]
              content  == ReplyContent(response)
          IN  /\ calls' = Append(calls, [ request  |-> PostRequest(arg),
                                          response |-> response ])
              /\ IF RaisesForStatus(response.status) \/ content.t = "raise"
                    THEN /\ pc' = "RAISED"
                         /\ call_failed' = TRUE
                         /\ ret' = ret
                    ELSE /\ pc' = "CREATED"
                         /\ call_failed' = call_failed
                         /\ ret' = MockResponse(content, ModelName)
    /\ UNCHANGED << task, max_review_cycles, all_history, current_script,
                    approved, cycle, passed, failures, cloud_output, files,
                    checks, drafts, arg >>

CreateNext == Create

CreateSpec == CreateInit /\ [][CreateNext]_vars

(***************************************************************************)
(* What the properties speak of                                            *)
(***************************************************************************)

InLoop == pc \in { "DRAFTING", "VALIDATING", "REVISING" }

AfterDeploy == pc \in { "SAVING_TRANSCRIPT", "SAVING_INFRA", "SAVING_SCRIPT", "DONE" }

\* The loop has ended without an approval.
BestEffort == pc \in { "DEPLOYING" } \cup { "SAVING_TRANSCRIPT", "SAVING_INFRA",
                                            "SAVING_SCRIPT", "DONE" }
              /\ ~approved

Last(s) == s[Len(s)]

\* The latest event of the run is a quality check that failed.
JustFailed ==
    /\ pc \in { "REVISING", "DEPLOYING" }
    /\ checks # << >>
    /\ ~Last(checks).passed
    /\ Len(checks) = Revisions + 1

\* Every script extracted in the run violates some rule.
AllDraftsFail ==
    \A i \in 1..Len(drafts) :
        \/ ~In(PartitionByMarker, drafts[i])
        \/ ~In(ToDateMarker, drafts[i])
        \/ (~In(StructTypeMarker, drafts[i]) /\ ~In(StructFieldMarker, drafts[i]))

FirstDraftPasses ==
    /\ drafts # << >>
    /\ In(PartitionByMarker, drafts[1])
    /\ In(ToDateMarker, drafts[1])
    /\ (In(StructTypeMarker, drafts[1]) \/ In(StructFieldMarker, drafts[1]))

\* The script inside the message that was sent to the deployment agent.
DeployedScript ==
    LET i == CHOOSE k \in 1..Len(calls) : calls[k].to = CloudArchitect
        m == calls[i].message
    IN  SubSeq(m, Len(DeployHead) + 1, Len(m) - Len(DeployTail))

\* The body of approved_script.py: what follows the blank line that ends
\* its two header lines.
WrittenScript ==
    LET text == files[ScriptFile]
    IN  SubSeq(text, Find(text, BlankLine, 1) + Len(BlankLine), Len(text))

\* The message is authored by agent_name.
AuthoredBy(msg, agent_name) == "name" \in DOMAIN msg /\ msg.name = agent_name

\* The message has a content that is a text with a character that is not
\* whitespace.
HasText(msg) ==
    /\ "content" \in DOMAIN msg
    /\ msg.content # None
    /\ \E i \in 1..Len(msg.content) : ~IsSpace(msg.content[i])

\* The messages of agent_name that have text, in conversation order.
Contributing(chat_history, agent_name) ==
    SelectSeq(chat_history, LAMBDA msg : AuthoredBy(msg, agent_name) /\ HasText(msg))

\* The trimmed texts of those messages, one per line group.
StitchedText(chat_history, agent_name) ==
    LET kept == Contributing(chat_history, agent_name)
    IN  Join(Newline, [ k \in 1..Len(kept) |-> Strip(kept[k].content) ])

\* The number of backticks that immediately precede position i.
BackticksBefore(s, i) ==
    CHOOSE n \in 0..(i - 1) :
        /\ \A k \in 1..n : s[i - k] = "BQ"
        /\ (n = i - 1 \/ s[i - n - 1] # "BQ")

\* The positions where a fence starts: a run of backticks reads as fences
\* from its left end, three backticks at a time.
Fences(s) ==
    { i \in 1..Len(s) : /\ StartsWithAt(s, i, Fence)
                        /\ BackticksBefore(s, i) % 3 = 0 }

\* The k-th element of a set of numbers, counted from the least.
Nth(S, k) == CHOOSE x \in S : Cardinality({ y \in S : y < x }) = k - 1

\* The fenced blocks of s read left to right: fences pair up as opening and
\* closing, a last unpaired fence opens nothing.  The body of a block is
\* what lies between its fences, less a recognized tag after the opening.
FencedBodies(s) ==
    LET F == Fences(s)
        body(k) ==
            LET open  == Nth(F, 2 * k - 1) + Len(Fence)
                close == Nth(F, 2 * k)
                from  == IF StartsWithAt(s, open, PythonTag)
                             THEN open + Len(PythonTag)
                         ELSE IF StartsWithAt(s, open, PysparkTag)
                             THEN open + Len(PysparkTag)
                         ELSE open
            IN  SubSeq(s, from, close - 1)
    IN  [ k \in 1..(Cardinality(F) \div 2) |-> body(k) ]

Applied == pc \in { "EXTRACTED", "EXTRACTED_AGAIN" }

\* The slug of the file name save_conversation returned.
ReturnedSlug == SubSeq(ret, 1, Len(ret) - Len(arg.suffix) - Len(TxtExt))

\* The characters of t that are a-z, 0-9 or whitespace once t is lower-cased,
\* in order.
SlugKept(t) ==
    LET low(c) == IF \E i \in 1..26 : UpperLetters[i] = c
                      THEN LowerLetters[CHOOSE i \in 1..26 : UpperLetters[i] = c]
                      ELSE c
        ok(c) == \/ \E i \in 1..26 : LowerLetters[i] = c
                 \/ \E i \in 1..10 : Digits[i] = c
                 \/ IsSpace(c)
    IN  SelectSeq([ i \in 1..Len(t) |-> low(t[i]) ], ok)

\* The words of s: its maximal runs of characters that are not whitespace.
Words(s) ==
    LET starts == { i \in 1..Len(s) : ~IsSpace(s[i]) /\ (i = 1 \/ IsSpace(s[i - 1])) }
        end(i) == CHOOSE j \in i..Len(s) :
                      /\ \A k \in i..j : ~IsSpace(s[k])
                      /\ (j = Len(s) \/ IsSpace(s[j + 1]))
    IN  [ k \in 1..Cardinality(starts) |->
            SubSeq(s, Nth(starts, k), end(Nth(starts, k))) ]

\* The first n characters of s, all of s when it is shorter.
FirstChars(s, n) == [ i \in 1..(IF Len(s) < n THEN Len(s) ELSE n) |-> s[i] ]

\* The failure texts of the rules that code violates, in rule order.
ExpectedFailures(code) ==
    LET occurs(m) == \E i \in 1..Len(code) :
                        /\ i + Len(m) - 1 <= Len(code)
                        /\ \A k \in 1..Len(m) : code[i + k - 1] = m[k]
    IN  (IF occurs(PartitionByMarker) THEN << >> ELSE << Rule1Failure >>)
        \o (IF occurs(ToDateMarker) THEN << >> ELSE << Rule2Failure >>)
        \o (IF occurs(StructTypeMarker) \/ occurs(StructFieldMarker)
                THEN << >> ELSE << Rule3Failure >>)

\* The texts of lines, each on a line of its own: a newline between two
\* consecutive texts, none at either end.
OnLines(lines) ==
    IF Len(lines) = 0 THEN << >>
    ELSE IF Len(lines) = 1 THEN lines[1]
    ELSE IF Len(lines) = 2 THEN lines[1] \o << "\n" >> \o lines[2]
    ELSE lines[1] \o << "\n" >> \o lines[2] \o << "\n" >> \o lines[3]

\* The reply has the expected shape: a dict whose "choices" is a non-empty
\* list, whose first choice is a dict whose "message" is a dict whose
\* "content" is a text.
HasTextualContent(body) ==
    /\ body.t = "dict"
    /\ "choices" \in DOMAIN body.v
    /\ body.v.choices.t = "list"
    /\ Len(body.v.choices.v) >= 1
    /\ body.v.choices.v[1].t = "dict"
    /\ "message" \in DOMAIN body.v.choices.v[1].v
    /\ body.v.choices.v[1].v.message.t = "dict"
    /\ "content" \in DOMAIN body.v.choices.v[1].v.message.v
    /\ body.v.choices.v[1].v.message.v.content.t = "str"

\* The transport outcome is a success.
TransportOk(response) == response.status >= 200 /\ response.status < 300

\* The completion calls of the run that have returned.
Returned == IF call_failed THEN Len(calls) - 1 ELSE Len(calls)

\* The number of messages of Admin among the first p messages of the
\* transcript: the chat that message p belongs to.
ChatOf(p) == Cardinality({ q \in 1..p : all_history[q].name = Admin })

\* What the transcript file holds for the messages of history after the
\* task line: for each message its label line, its trimmed content, a blank
\* line, a rule of 80 dashes and a blank line.
RenderedTranscript(history) ==
    LET rule(c) == [ i \in 1..80 |-> c ]
        entry(msg) ==
            << "[" >> \o Upper(msg.role) \o << " ", "EMDASH", " " >>
            \o Upper(msg.name) \o << "]", "\n" >>
            \o Strip(msg.content) \o << "\n", "\n" >>
            \o rule("-") \o << "\n", "\n" >>
    IN  << "T", "A", "S", "K", ":", " " >> \o task \o << "\n" >>
        \o rule("=") \o << "\n", "\n" >>
        \o Join(<< >>, [ k \in 1..Len(history) |-> entry(history[k]) ])

(***************************************************************************)
(* Properties                                                              *)
(***************************************************************************)

\* C1: a run makes at most max_review_cycles revision requests to the
\* drafting agent, whatever the agent replies, before it leaves the loop.
C1_RevisionsBounded == Revisions <= max_review_cycles

C1_Witness ==
    /\ pc = "DEPLOYING"
    /\ ~approved
    /\ max_review_cycles >= 2
    /\ Revisions = max_review_cycles - 1

\* C2: when every completion call returns, the run halts: it reaches DONE or
\* aborts, and never stays in the validate/revise loop for ever.
C2_Halts == <>(pc \in { "DONE", "ABORTED" })

C2_Witness ==
    /\ pc = "DONE"
    /\ ~approved
    /\ max_review_cycles >= 2
    /\ Len(checks) = max_review_cycles
    /\ AllDraftsFail

\* C3 as written: a failed check leads to a revision whenever fewer than
\* max_review_cycles revisions were made, the loop gives up only with exactly
\* max_review_cycles revisions made, and a run whose drafts all fail makes
\* exactly max_review_cycles revisions.
C3_Original ==
    /\ (JustFailed /\ Revisions < max_review_cycles => pc = "REVISING")
    /\ (JustFailed /\ pc = "DEPLOYING" => Revisions = max_review_cycles)
    /\ (pc = "DONE" /\ AllDraftsFail => Revisions = max_review_cycles)

\* C3 amended: the check of the initial draft is review cycle 1 of
\* max_review_cycles.  A failed check leads to a revision exactly when fewer
\* than max_review_cycles - 1 revisions were made; the loop ends unapproved
\* only with max(max_review_cycles - 1, 0) revisions made, and a run whose
\* drafts all fail makes exactly that many.
C3_Amended ==
    LET budget == IF max_review_cycles >= 1 THEN max_review_cycles - 1 ELSE 0
    IN  /\ (JustFailed => (pc = "REVISING" <=> Revisions < budget))
        /\ (JustFailed /\ pc = "DEPLOYING" => Revisions = budget)
        /\ (BestEffort => Revisions = budget)
        /\ (pc = "DONE" /\ AllDraftsFail => Revisions = budget)
        /\ (checks # << >> => checks[1].code = drafts[1])

C3_Witness ==
    /\ JustFailed
    /\ pc = "DEPLOYING"
    /\ max_review_cycles >= 2
    /\ Revisions = max_review_cycles - 1

\* C4 as written: for every max_review_cycles >= 0 the initial draft is
\* checked right after it is drafted, and a passing initial draft ends the
\* run approved with no revision.
C4_Original ==
    /\ (drafts # << >> =>
            \/ (pc = "VALIDATING" /\ checks = << >>)
            \/ (checks # << >> /\ checks[1].code = drafts[1]))
    /\ (pc = "DONE" /\ FirstDraftPasses => approved /\ Revisions = 0)

\* C4 amended: the same for max_review_cycles >= 1; with max_review_cycles = 0
\* the draft is never checked, drafting is followed by the deployment stage
\* and the run is not approved, whatever the draft.
C4_Amended ==
    /\ (max_review_cycles >= 1 /\ drafts # << >> =>
            \/ (pc = "VALIDATING" /\ checks = << >>)
            \/ (checks # << >> /\ checks[1].code = drafts[1]))
    /\ (max_review_cycles >= 1 /\ pc = "DONE" /\ FirstDraftPasses =>
            approved /\ Revisions = 0)
    /\ (max_review_cycles = 0 /\ drafts # << >> =>
            checks = << >> /\ ~approved /\ ~InLoop)

C4_Witness ==
    /\ pc = "DONE"
    /\ max_review_cycles >= 1
    /\ FirstDraftPasses
    /\ approved
    /\ Len(checks) = 1
    /\ Revisions = 0

\* C5: approved implies that the latest quality check passed and that it was
\* made on the script the run keeps: no script is extracted after it, and
\* the script artifact holds the checked script.
C5_ApprovedMeansPassed ==
    approved =>
        /\ passed
        /\ checks # << >>
        /\ Last(checks).passed
        /\ Last(checks).code = current_script
        /\ Len(drafts) = Len(checks)
        /\ (pc = "DONE" => WrittenScript = Last(checks).code)

C5_Witness ==
    /\ pc = "DONE"
    /\ approved
    /\ Revisions >= 1

\* C6: a run that ends unapproved never writes an empty final script.
C6_BestEffortNeverEmpty ==
    pc = "DONE" /\ ~approved => WrittenScript # << >>

\* C7: the deployment request is made at most once, only after the loop has
\* ended, exactly once in a run that does not abort, and the script it
\* carries is the script written as the script artifact.
C7_DeployedOnceWithFinalScript ==
    /\ Deploys <= 1
    /\ (Deploys = 1 => ~InLoop)
    /\ (AfterDeploy => Deploys = 1 /\ DeployedScript = current_script)
    /\ (pc = "DONE" => DeployedScript = WrittenScript)

C7_Witness ==
    /\ pc = "DONE"
    /\ ~approved
    /\ Revisions >= 1
    /\ WrittenScript # << >>

\* C8: an unapproved run writes the most recently extracted draft unchanged;
\* with max_review_cycles = 0 and an initial draft that violates a rule the
\* run ends unapproved with no revision and writes the initial draft.
C8_BestEffortKeepsDraft ==
    /\ (pc = "DONE" /\ ~approved => WrittenScript = Last(drafts))
    /\ (pc = "DONE" /\ max_review_cycles = 0 /\ ~FirstDraftPasses =>
            /\ ~approved
            /\ Revisions = 0
            /\ Len(drafts) = 1
            /\ WrittenScript = drafts[1])

C8_Witness ==
    /\ pc = "DONE"
    /\ max_review_cycles = 0
    /\ ~FirstDraftPasses
    /\ drafts[1] # << >>

\* C9: once a completion call has raised no file is ever written, and a file
\* is written only after the drafting, every revision and the deployment
\* call have returned.
C9_NoArtifactAfterFatal ==
    /\ (call_failed => DOMAIN files = {})
    /\ (pc = "ABORTED" => call_failed)
    /\ (DOMAIN files # {} =>
            /\ ~call_failed
            /\ Deploys = 1
            /\ pc \in { "SAVING_INFRA", "SAVING_SCRIPT", "DONE" })

C9_Witness ==
    /\ pc = "ABORTED"
    /\ Revisions >= 1
    /\ Deploys = 1
    /\ all_history # << >>

\* C10: the failure list of local_quality_check holds one entry for each
\* violated rule and no other, in the order rule 1, rule 2, rule 3 (rule 3
\* is violated only when both schema markers are absent), and passed is true
\* exactly when the list is empty.
C10_GateRules ==
    pc = "GATE_DONE" =>
        LET occurs(m) == \E i \in 1..Len(arg) :
                            /\ i + Len(m) - 1 <= Len(arg)
                            /\ \A k \in 1..Len(m) : arg[i + k - 1] = m[k]
            rules == << [ violated |-> ~occurs(PartitionByMarker),
                          failure  |-> Rule1Failure ],
                        [ violated |-> ~occurs(ToDateMarker),
                          failure  |-> Rule2Failure ],
                        [ violated |-> ~(occurs(StructTypeMarker)
                                         \/ occurs(StructFieldMarker)),
                          failure  |-> Rule3Failure ] >>
            hit   == SelectSeq(rules, LAMBDA r : r.violated)
        IN  /\ ret.failures = [ k \in 1..Len(hit) |-> hit[k].failure ]
            /\ ret.passed = (ret.failures = << >>)
            /\ (arg = << >> =>
                    ret.failures = << Rule1Failure, Rule2Failure, Rule3Failure >>)

C10_Witness ==
    /\ pc = "GATE_DONE"
    /\ ret.passed
    /\ In(StructTypeMarker, arg)
    /\ ~In(StructFieldMarker, arg)

\* C11: when the stitched text of the agent holds a fenced block,
\* extract_code_from_chat returns the bodies of the blocks, each trimmed, in
\* order, joined by a blank line, and nothing of the prose around them; the
\* single message  prose <fence>python\nSELECT 1\n<fence> trailing  gives
\* SELECT 1.
C11_FencedBodiesOnly ==
    Applied =>
        \A k \in 1..Len(drafts) :
            LET s      == StitchedText(calls[k].chat_history, calls[k].agent_name)
                bodies == FencedBodies(s)
            IN  /\ (bodies # << >> =>
                        drafts[k] = Join(BlankLine,
                                         [ b \in 1..Len(bodies) |-> Strip(bodies[b]) ]))
                /\ (calls[k].chat_history
                        = << Message(RoleUser, DataArchitect, SpecExample) >>
                     => drafts[k] = SelectOne)

C11_Witness ==
    /\ pc = "EXTRACTED"
    /\ Len(arg.chat_history) = 2
    /\ Len(FencedBodies(StitchedText(arg.chat_history, arg.agent_name))) = 2
    /\ Len(Contributing(arg.chat_history, arg.agent_name)) = 2
    /\ ret # << >>

\* C12: when the stitched text of the agent holds no fenced block,
\* extract_code_from_chat returns the stitched text unchanged, and a second
\* extraction from a history whose only message is the agent saying the
\* first result returns the same text.
C12_UnfencedUnchanged ==
    Applied =>
        \A k \in 1..Len(drafts) :
            LET s == StitchedText(calls[k].chat_history, calls[k].agent_name)
                unfenced == ~\E i, j \in 1..Len(s) : /\ i + Len(Fence) <= j
                                                     /\ StartsWithAt(s, i, Fence)
                                                     /\ StartsWithAt(s, j, Fence)
            IN  unfenced => /\ drafts[k] = s
                            /\ (k = 1 /\ Len(drafts) = 2 => drafts[2] = s)

C12_Witness ==
    /\ pc = "EXTRACTED_AGAIN"
    /\ Len(Contributing(calls[1].chat_history, calls[1].agent_name)) = 2
    /\ Cardinality(Fences(StitchedText(calls[1].chat_history,
                                       calls[1].agent_name))) = 1
    /\ drafts[1] = StitchedText(calls[1].chat_history, calls[1].agent_name)
    /\ drafts[2] = drafts[1]

\* C13: the messages of other agents and the messages without text never
\* contribute: the result is the result on the history without them, and it
\* is the empty text when no message is authored by the agent.
C13_OnlyOwnTextCounts ==
    Applied =>
        \A k \in 1..Len(drafts) :
            LET h == calls[k].chat_history
                a == calls[k].agent_name
            IN  /\ drafts[k] = extract_code_from_chat(Contributing(h, a), a)
                /\ \A i \in 1..Len(h) :
                      ~(AuthoredBy(h[i], a) /\ HasText(h[i])) =>
                          drafts[k] = extract_code_from_chat(
                                          SubSeq(h, 1, i - 1) \o SubSeq(h, i + 1, Len(h)), a)
                /\ ((\A i \in 1..Len(h) : ~AuthoredBy(h[i], a)) => drafts[k] = << >>)

C13_Witness ==
    /\ pc = "EXTRACTED"
    /\ Len(arg.chat_history) = 2
    /\ \E i \in 1..2 : /\ ~AuthoredBy(arg.chat_history[i], arg.agent_name)
                        /\ HasText(arg.chat_history[i])
    /\ \A i \in 1..2 : ~AuthoredBy(arg.chat_history[i], arg.agent_name)
    /\ ret = << >>

\* C14 as written: the slug is the task lower-cased, without the characters
\* that are not a-z, 0-9 or whitespace, with every whitespace run turned
\* into one underscore, cut to 40 characters; the task of the scenario gives
\* write_a_concise_pyspark_script_for_500.
C14_Original ==
    pc = "SAVED" =>
        /\ ReturnedSlug
             = FirstChars(CollapseSpace(SlugKept(arg.task_message)), SlugLen)
        /\ (arg.task_message = SlugExampleTask => ReturnedSlug = SlugExampleClaimed)

\* C14 amended: whitespace at the two ends of what is kept is removed before
\* the runs are turned into underscores, so the slug is the kept words joined
\* by single underscores, cut to 40 characters; the task of the scenario
\* gives write_a_concise_pyspark_script_for_500gb, which is 40 characters.
C14_Amended ==
    pc = "SAVED" =>
        /\ ReturnedSlug
             = FirstChars(Join(<< "_" >>, Words(SlugKept(arg.task_message))), SlugLen)
        /\ Len(ReturnedSlug) <= SlugLen
        /\ (arg.task_message = SlugExampleTask => ReturnedSlug = SlugExampleActual)
        /\ DOMAIN files = { ret }

C14_Witness ==
    /\ pc = "SAVED"
    /\ arg.task_message = SlugExampleTask
    /\ arg.suffix = FullSquadSuffix
    /\ Len(ReturnedSlug) = SlugLen

\* C15: an extraction that yields the empty text does not abort the run.
\* With max_review_cycles >= 1 the empty script is the next script checked,
\* the check fails on all three rules, and the run then takes the branch of
\* any failed check: a revision while cycle < max_review_cycles, otherwise
\* the end of the loop unapproved; and the deployment request is made unless
\* a later completion call raises.
C15_EmptyScriptIsOrdinaryFailure ==
    /\ [](/\ (pc = "ABORTED" => call_failed)
          /\ \A i \in 1..Len(drafts) :
                (max_review_cycles >= 1 /\ drafts[i] = << >>) =>
                    \/ (pc = "VALIDATING" /\ Len(checks) = i - 1
                            /\ current_script = << >>)
                    \/ (Len(checks) >= i /\ checks[i].code = << >>
                            /\ ~checks[i].passed)
          /\ (checks # << >> /\ Last(checks).code = << >> =>
                  failures = << Rule1Failure, Rule2Failure, Rule3Failure >>)
          /\ (JustFailed /\ Last(checks).code = << >> =>
                  /\ (pc = "REVISING" <=> cycle < max_review_cycles)
                  /\ (pc = "DEPLOYING" => ~approved)))
    /\ ((drafts # << >> /\ Last(drafts) = << >>) ~> (Deploys = 1 \/ call_failed))

C15_Witness ==
    /\ pc = "DONE"
    /\ max_review_cycles >= 2
    /\ Len(drafts) = max_review_cycles
    /\ \A i \in 1..Len(drafts) : drafts[i] = << >>
    /\ Len(checks) = max_review_cycles
    /\ ~approved
    /\ Deploys = 1

\* C16: every revision request goes to the agent that drafted, right after
\* a failed check of the current script, and its message is the fixed head,
\* the failures of that check in rule order, one per line, and the fixed
\* tail.  The script extracted from the reply becomes the current script and
\* is the next script checked, before any deployment request.
C16_RevisionCarriesFailures ==
    /\ \A i \in 2..Len(calls) :
          calls[i].to # CloudArchitect =>
              /\ calls[i].to = calls[1].to
              /\ calls[i].to = DataArchitect
              /\ Len(checks) >= i - 1
              /\ Len(drafts) >= i - 1
              /\ checks[i - 1].code = drafts[i - 1]
              /\ ~checks[i - 1].passed
              /\ ExpectedFailures(drafts[i - 1]) # << >>
              /\ calls[i].message
                   = RewriteHead \o OnLines(ExpectedFailures(drafts[i - 1])) \o RewriteTail
    /\ \A i \in 2..Len(drafts) :
          \/ (pc = "VALIDATING" /\ Len(checks) = i - 1 /\ i = Len(drafts))
          \/ (Len(checks) >= i /\ checks[i].code = drafts[i])
    /\ (drafts # << >> /\ pc # "ABORTED" => current_script = Last(drafts))
    /\ (Deploys = 1 /\ Len(drafts) >= 2 => Len(checks) = Len(drafts))

C16_Witness ==
    /\ pc = "DONE"
    /\ approved
    /\ Revisions = 2
    /\ Len(ExpectedFailures(drafts[1])) = 3
    /\ Len(ExpectedFailures(drafts[2])) = 2
    /\ calls[3].message # calls[2].message

\* C17: for a list of n >= 1 messages the request posted holds the last
\* min(5, n) of them in their order, each as a dict of exactly role and
\* content, a missing role being "user" and a missing content the empty
\* text; one request is posted, and the call leaves its argument as it was.
C17_LastFiveSent ==
    /\ [](pc \in { "CREATED", "RAISED" } /\ "messages" \in DOMAIN arg
             /\ Len(arg.messages) >= 1 =>
            LET n    == Len(arg.messages)
                k    == IF n < 5 THEN n ELSE 5
                sent == calls[1].request.json.messages
            IN  /\ Len(calls) = 1
                /\ Len(sent) = k
                /\ \A j \in 1..k :
                      LET m == arg.messages[n - k + j]
                      IN  /\ DOMAIN sent[j] = { "role", "content" }
                          /\ sent[j].role
                               = (IF "role" \in DOMAIN m THEN m.role ELSE RoleUser)
                          /\ sent[j].content
                               = (IF "content" \in DOMAIN m THEN m.content ELSE << >>))
    /\ [][arg' = arg]_vars

C17_Witness ==
    /\ pc = "CREATED"
    /\ "messages" \in DOMAIN arg
    /\ Len(arg.messages) = 6
    /\ arg.messages[1] # arg.messages[6]
    /\ "role" \notin DOMAIN arg.messages[2]
    /\ "content" \notin DOMAIN arg.messages[3]
    /\ Len(calls[1].request.json.messages) = 5

\* C18: with a success status the call returns only when the reply is a
\* non-empty list of choices whose first choice holds a message with a text
\* content, and what it returns is that text; for every other reply it
\* raises and returns nothing.
C18_TextOrFatal ==
    pc \in { "CREATED", "RAISED" } /\ TransportOk(calls[1].response) =>
        /\ (pc = "CREATED" =>
                /\ HasTextualContent(calls[1].response.body)
                /\ ret.choices[1].message.content.t = "str")
        /\ (~HasTextualContent(calls[1].response.body) =>
                pc = "RAISED" /\ call_failed /\ ret = << >>)

\* C19: the transcript only grows, by appending: every step leaves the
\* messages it holds in place.  At every point it is the chats of the calls
\* that have returned, in the order they were made: each chat starts with
\* the message Admin sent and holds the replies of the agent it was sent to.
\* At the end that is the drafting chat, the revision chats and the
\* deployment chat, and the transcript file holds exactly these messages.
C19_TranscriptAppendOnly ==
    /\ [][/\ Len(all_history') >= Len(all_history)
          /\ SubSeq(all_history', 1, Len(all_history)) = all_history]_vars
    /\ [](/\ ChatOf(Len(all_history)) = Returned
          /\ (all_history # << >> => all_history[1].name = Admin)
          /\ \A p \in 1..Len(all_history) :
                IF all_history[p].name = Admin
                    THEN all_history[p].content = calls[ChatOf(p)].message
                    ELSE all_history[p].name = calls[ChatOf(p)].to
          /\ (pc = "DONE" =>
                  /\ calls[1].to = DataArchitect
                  /\ calls[1].message = task
                  /\ Last(calls).to = CloudArchitect
                  /\ \A i \in 2..(Len(calls) - 1) : calls[i].to = DataArchitect)
          /\ (pc \in { "SAVING_INFRA", "SAVING_SCRIPT", "DONE" } =>
                  files[TranscriptName(task, FullSquadSuffix)]
                      = RenderedTranscript(all_history)))

C19_Witness ==
    /\ pc = "DONE"
    /\ Revisions >= 2
    /\ Len(all_history) >= 8
    /\ ChatOf(Len(all_history)) = Revisions + 2

\* C20: for max_review_cycles >= 1 a completed run is approved exactly when
\* the script it ends with satisfies the three rules: the script handed to
\* the deployment stage is the script of the latest check, and the script
\* artifact is labelled BEST EFFORT exactly when that script violates a rule.
C20_ApprovedIffFinalPasses ==
    max_review_cycles >= 1 =>
        /\ (pc \in { "DEPLOYING", "SAVING_TRANSCRIPT", "SAVING_INFRA",
                      "SAVING_SCRIPT", "DONE" } =>
                /\ checks # << >>
                /\ Last(checks).code = current_script
                /\ Len(checks) = Len(drafts)
                /\ (approved <=> ExpectedFailures(current_script) = << >>))
        /\ (pc = "DONE" =>
                files[ScriptFile]
                    = ScriptHeader \o ReviewLabel
                      \o (IF ExpectedFailures(current_script) = << >>
                              THEN ApprovedText ELSE BestEffortText)
                      \o BlankLine \o current_script)

C20_Witness ==
    /\ pc = "DONE"
    /\ max_review_cycles >= 2
    /\ Revisions = max_review_cycles - 1
    /\ approved
    /\ ExpectedFailures(current_script) = << >>

=============================================================================
